---- MODULE Spec2Model ----
(***************************************************************************)
(* Signal-extraction pipeline of DiscordPicExtract (src/extract_signals.py)*)
(*                                                                         *)
(* extract_signals_sequential walks the sorted frame files of one day.     *)
(* The image primitives it calls (cv2, the text-recognition engines) are   *)
(* capabilities outside the repository: what detect_triangles and          *)
(* extract_y_axis_range return for a file is an input of the model, drawn  *)
(* from bounded sets when the loop reaches the file.                       *)
(*                                                                         *)
(* Encodings                                                               *)
(*   file name   <<date, tok, orig>>: date is the YYYY-MM-DD prefix, tok   *)
(*               the rank of the 8 characters that follow the "_" (an even *)
(*               tok 2*s is the well-formed field HH-MM-SS of second s, an *)
(*               odd tok 2*s+1 a malformed field that sorts right after    *)
(*               it, such as "09-30-0x"), orig the rank of the rest of the *)
(*               name.  Tuples compare as the strings do.                  *)
(*   price       amounts are cents; a price is the exact fraction          *)
(*               <<num, den>> of cents with den > 0, a rounded price has   *)
(*               den = 1.                                                  *)
(*   timestamp   <<date, second>>                                          *)
(*   triangle    [center |-> <<x, y>>, orientation, color]; area and       *)
(*               vertices are never read.                                  *)
(*   colour      <<r, g, b>>                                               *)
(***************************************************************************)
EXTENDS Integers, Sequences, FiniteSets, TLC

VARIABLES
    date_str,            \* argument of extract_signals_sequential
    image_files,         \* files of sorted(glob) the loop has reached, in order
    all_signals,         \* all_signals
    signal_number,       \* signal_number
    previous_triangles,  \* previous_triangles
    timestamp,           \* loop local: timestamp of the current file
    y_axis_info,         \* loop local: extract_y_axis_range(image_path)
    triangles,           \* loop local: detect_triangles(image_path)
    new_triangle,        \* loop local: the tracker's selection
    branch,              \* which arm of the tracker rule assigned new_triangle
    price,               \* loop local: unrounded price
    prev_used,           \* previous_triangles as the tracker read it for new_triangle
    signal_frame,        \* for each signal, the index in image_files of its frame
    pc,                  \* where the function that is running stands
    colorbar,            \* extract_triangles_with_risk: load_colorbar(colorbar_path)
    results,             \* extract_triangles_with_risk: results
    last_triangle,       \* extract_triangles_with_risk: the tracker's selection
    frame_index,         \* extract_triangles_with_risk: files of image_files done
    csv,                 \* process_date: the rows of <date_str>.csv, None without file
    call                 \* the arguments, locals and result of one direct call of
                         \* a function (SpecPrice, SpecAxis, SpecOrientation,
                         \* SpecDedup, SpecRiskLevel)

riskVars == <<colorbar, results, last_triangle, frame_index, csv>>

vars == <<date_str, image_files, all_signals, signal_number, previous_triangles,
          timestamp, y_axis_info, triangles, new_triangle, branch, price,
          prev_used, signal_frame, pc, call, riskVars>>

pipeVars == <<date_str, image_files, all_signals, signal_number, previous_triangles,
              timestamp, y_axis_info, triangles, new_triangle, branch, price,
              prev_used, signal_frame, pc, riskVars>>

\* Python None, for the optional tuples (timestamp, y_axis_info, price)
None == <<>>

(***************************************************************************)
(* Bounds                                                                  *)
(***************************************************************************)
MaxFrames == 3      \* files matched by the glob
MaxTime == 1        \* seconds 0..MaxTime on the day with irregular names
MaxOrig == 1        \* distinct remainders of a name, 0..MaxOrig
MaxTriangles == 2   \* triangles detected in one frame
MaxRow == 4         \* pixel rows 0..MaxRow in a direct call of y_to_price
MaxCents == 2       \* prices 0..MaxCents in a direct call of y_to_price

(***************************************************************************)
(* Program constants                                                       *)
(***************************************************************************)
ConfidentDelta == 20
CandidateDelta == 10
DuplicateDist == 30

(***************************************************************************)
(* Input domains                                                           *)
(***************************************************************************)
ExampleDay == "2025-02-12"   \* the three-frame example of the design
TrackerDay == "2025-02-13"   \* markers around x = 500
NamingDay == "2025-02-14"    \* repeated seconds and malformed names
Dates == {ExampleDay, TrackerDay, NamingDay}

\* colours of the gradient strip, and a marker colour 4 away from Red
Red == <<200, 0, 0>>
Amber == <<100, 100, 0>>
Green == <<0, 200, 0>>
NearRed == <<204, 0, 0>>

\* the colour sampled at a marker is fixed by its kind here
Tri(x, y, o) ==
    [center |-> <<x, y>>, orientation |-> o,
     color |-> IF o = "buy" THEN Green ELSE NearRed]

T100 == Tri(100, 300, "buy")
T140 == Tri(140, 450, "sell")

TrianglePool(d) ==
    IF d = TrackerDay
    THEN {Tri(500, 300, "buy"), Tri(505, 250, "sell"), Tri(508, 300, "buy"),
          Tri(510, 300, "buy"), Tri(520, 300, "buy"), Tri(525, 250, "sell")}
    ELSE {T100, T140}

Cal(lo, hi, top, bot) == <<lo, hi, top, bot>>

CalA == Cal(500000, 500010, 100, 400)
CalB == Cal(400000, 700000, 0, 600)
CalDegenerate == Cal(500000, 600000, 100, 100)

Calibrations(d) ==
    IF d = ExampleDay THEN {None, CalA, CalB, CalDegenerate}
    ELSE {None}

Names(d) ==
    IF d = NamingDay
    THEN {<<d, 2 * s, o>> : s \in 0..MaxTime, o \in 0..MaxOrig}
         \cup {<<d, 2 * s + 1, 0>> : s \in 0..MaxTime}
    ELSE {<<d, 2 * s, 0>> : s \in 0..(MaxFrames - 1)}


(***************************************************************************)
(* detect_triangles returns its triangles de-duplicated (no two centres    *)
(* closer than DuplicateDist) and sorted by descending centre x.           *)
(***************************************************************************)
X(t) == t.center[1]
Y(t) == t.center[2]

TooClose(a, b) ==
    (X(a) - X(b)) * (X(a) - X(b)) + (Y(a) - Y(b)) * (Y(a) - Y(b))
        < DuplicateDist * DuplicateDist

ListsOver(pool) ==
    { s \in UNION { [1..n -> pool] : n \in 0..MaxTriangles } :
        /\ \A a, b \in 1..Len(s) : a < b => X(s[a]) >= X(s[b])
        /\ \A a, b \in 1..Len(s) : a # b => ~TooClose(s[a], s[b]) }

\* what the image primitives can return for the files of each day; a file
\* whose name does not parse may show triangles all the same; img is FALSE
\* for a file cv2.imread cannot decode, for which detect_triangles returns []
\* and extract_y_axis_range returns None
FilesOver(d) ==
    { f \in [name : Names(d), triangles : ListsOver(TrianglePool(d)),
             y_axis_info : Calibrations(d),
             img : IF d = ExampleDay THEN BOOLEAN ELSE {TRUE}] :
        /\ f.name[2] % 2 = 1 => (f.y_axis_info = None /\ f.img)
        /\ ~f.img => (f.triangles = <<>> /\ f.y_axis_info = None) }

ExampleFiles == { f : f \in FilesOver(ExampleDay) }
TrackerFiles == { f : f \in FilesOver(TrackerDay) }
NamingFiles == { f : f \in FilesOver(NamingDay) }

FrameFiles(d) ==
    IF d = ExampleDay THEN ExampleFiles
    ELSE IF d = TrackerDay THEN TrackerFiles
    ELSE NamingFiles

(***************************************************************************)
(* sorted(folder_path.glob(pattern)): the next file of the list has a      *)
(* greater name than the one before it.                                    *)
(***************************************************************************)
NameLess(a, b) ==
    \/ a[2] < b[2]
    \/ a[2] = b[2] /\ a[3] < b[3]

UnsortedAfter(files, name) ==
    \A k \in 1..Len(files) : files[k].name # name

SortedAfter(files, name) ==
    IF files = <<>> THEN TRUE ELSE NameLess(files[Len(files)].name, name)

(***************************************************************************)
(* parse_timestamp_from_filename: reads the first 19 characters only, so   *)
(* the remainder of the name is dropped; a malformed field gives None.     *)
(***************************************************************************)
\* a malformed time field read as the second before it
ParseTimestampLenient(name) == <<name[1], name[2] \div 2>>

parse_timestamp_from_filename(name) ==
    IF name[2] % 2 = 0 THEN <<name[1], name[2] \div 2>> ELSE None

\* timestamp.strftime("%Y-%m-%d %H:%M:%S")
strftime(dt) == <<dt[1], dt[2]>>

(***************************************************************************)
(* max(seq, key = x): the first element with the largest x.                *)
(***************************************************************************)
MaxByX(s) ==
    s[CHOOSE k \in 1..Len(s) :
        /\ \A j \in 1..Len(s) : X(s[j]) <= X(s[k])
        /\ \A j \in 1..(k - 1) : X(s[j]) < X(s[k])]

MinByX(s) ==
    s[CHOOSE k \in 1..Len(s) :
        /\ \A j \in 1..Len(s) : X(s[j]) >= X(s[k])
        /\ \A j \in 1..(k - 1) : X(s[j]) > X(s[k])]

MaxX(s) == X(MaxByX(s))

(***************************************************************************)
(* The tracker: the selection of new_triangle, with the arm that made it.  *)
(***************************************************************************)
SelectNewLeftmostFallback(i, cur, prev) ==
    IF i = 0 THEN [tri |-> MaxByX(cur), arm |-> "first"]
    ELSE IF prev = <<>> THEN [tri |-> MaxByX(cur), arm |-> "noprev"]
    ELSE IF MaxX(cur) > MaxX(prev) + ConfidentDelta
         THEN [tri |-> MaxByX(cur), arm |-> "confident"]
    ELSE LET candidates == SelectSeq(cur, LAMBDA t : X(t) > MaxX(prev) + CandidateDelta)
         IN IF candidates # <<>>
            THEN [tri |-> MaxByX(candidates), arm |-> "candidate"]
            ELSE [tri |-> MinByX(cur), arm |-> "fallback"]

SelectNewFromPrevious(i, cur, prev) ==
    IF i = 0 THEN [tri |-> MaxByX(cur), arm |-> "first"]
    ELSE IF prev = <<>> THEN [tri |-> MaxByX(cur), arm |-> "noprev"]
    ELSE IF MaxX(cur) > MaxX(prev) + ConfidentDelta
         THEN [tri |-> MaxByX(cur), arm |-> "confident"]
    ELSE LET candidates == SelectSeq(cur, LAMBDA t : X(t) > MaxX(prev) + CandidateDelta)
         IN IF candidates # <<>>
            THEN [tri |-> MaxByX(candidates), arm |-> "candidate"]
            ELSE [tri |-> MaxByX(prev), arm |-> "fallback"]

\* the candidate arm returns its leftmost candidate
SelectNewMinCandidate(i, cur, prev) ==
    IF i = 0 THEN [tri |-> MaxByX(cur), arm |-> "first"]
    ELSE IF prev = <<>> THEN [tri |-> MaxByX(cur), arm |-> "noprev"]
    ELSE IF MaxX(cur) > MaxX(prev) + ConfidentDelta
         THEN [tri |-> MaxByX(cur), arm |-> "confident"]
    ELSE LET candidates == SelectSeq(cur, LAMBDA t : X(t) > MaxX(prev) + CandidateDelta)
         IN IF candidates # <<>>
            THEN [tri |-> MinByX(candidates), arm |-> "candidate"]
            ELSE [tri |-> MaxByX(cur), arm |-> "fallback"]

SelectNew(i, cur, prev) ==
    IF i = 0 THEN [tri |-> MaxByX(cur), arm |-> "first"]
    ELSE IF prev = <<>> THEN [tri |-> MaxByX(cur), arm |-> "noprev"]
    ELSE IF MaxX(cur) > MaxX(prev) + ConfidentDelta
         THEN [tri |-> MaxByX(cur), arm |-> "confident"]
    ELSE LET candidates == SelectSeq(cur, LAMBDA t : X(t) > MaxX(prev) + CandidateDelta)
         IN IF candidates # <<>>
            THEN [tri |-> MaxByX(candidates), arm |-> "candidate"]
            ELSE [tri |-> MaxByX(cur), arm |-> "fallback"]

(***************************************************************************)
(* y_to_price: None on a degenerate calibration, otherwise                 *)
(*   max_price - clamp((y - y_top) / (y_bottom - y_top), 0, 1)             *)
(*             * (max_price - min_price)                                   *)
(* as the exact fraction <<num, den>>, den = |y_bottom - y_top|.           *)
(***************************************************************************)
Clamp(v, lo, hi) == IF v < lo THEN lo ELSE IF v > hi THEN hi ELSE v

Frac(n, d) == <<n, d>>

YToPriceRising(y, min_price, max_price, y_top, y_bottom) ==
    IF y_bottom = y_top THEN None
    ELSE LET den == IF y_bottom > y_top THEN y_bottom - y_top ELSE y_top - y_bottom
             raw == IF y_bottom > y_top THEN y - y_top ELSE y_top - y
             normalized == Clamp(raw, 0, den)
         IN Frac(min_price * den + normalized * (max_price - min_price), den)

YToPriceUnclamped(y, min_price, max_price, y_top, y_bottom) ==
    IF y_bottom = y_top THEN None
    ELSE LET den == IF y_bottom > y_top THEN y_bottom - y_top ELSE y_top - y_bottom
             raw == IF y_bottom > y_top THEN y - y_top ELSE y_top - y
         IN Frac(max_price * den - raw * (max_price - min_price), den)

YToPriceNoGuard(y, min_price, max_price, y_top, y_bottom) ==
    IF y_bottom = y_top THEN Frac(max_price, 1)
    ELSE LET den == IF y_bottom > y_top THEN y_bottom - y_top ELSE y_top - y_bottom
             raw == IF y_bottom > y_top THEN y - y_top ELSE y_top - y
             normalized == Clamp(raw, 0, den)
         IN Frac(max_price * den - normalized * (max_price - min_price), den)

y_to_price(y, min_price, max_price, y_top, y_bottom) ==
    IF y_bottom = y_top THEN None
    ELSE LET den == IF y_bottom > y_top THEN y_bottom - y_top ELSE y_top - y_bottom
             raw == IF y_bottom > y_top THEN y - y_top ELSE y_top - y
             normalized == Clamp(raw, 0, den)
         IN Frac(max_price * den - normalized * (max_price - min_price), den)

\* round(price, 2): the nearest cent, an exact half going to the even cent
Round2(p) ==
    LET q == p[1] \div p[2]
        r == p[1] % p[2]
        c == IF 2 * r < p[2] THEN q
             ELSE IF 2 * r > p[2] THEN q + 1
             ELSE IF q % 2 = 0 THEN q ELSE q + 1
    IN Frac(c, 1)


(***************************************************************************)
(* The body of the loop of extract_signals_sequential                      *)
(***************************************************************************)
\* the price of the frame's marker from the frame's own y_axis_info
FramePriceCached(center_y, info) ==
    IF info # None
    THEN y_to_price(center_y, info[1], info[2], info[3], info[4])
    ELSE IF y_axis_info # None
    THEN y_to_price(center_y, y_axis_info[1], y_axis_info[2], y_axis_info[3], y_axis_info[4])
    ELSE None

\* a price from default bounds when the frame has no calibration
FramePriceDefault(center_y, info) ==
    IF info # None
    THEN y_to_price(center_y, info[1], info[2], info[3], info[4])
    ELSE y_to_price(center_y, 400000, 700000, 0, 600)

FramePrice(center_y, info) ==
    IF info # None
    THEN y_to_price(center_y, info[1], info[2], info[3], info[4])
    ELSE None

\* str.capitalize() on the orientation
Capitalize(o) == IF o = "buy" THEN "Buy" ELSE "Sell"

MakeSignal(n, ts, p, tri) ==
    [signal_no |-> n,
     timestamp |-> strftime(ts),
     price |-> IF p # None THEN Round2(p) ELSE None,
     buy_sell |-> Capitalize(tri.orientation),
     y_coordinate |-> Y(tri),
     triangle |-> tri]

SignalNumberUnchanged(n) == n

NextSignalNumber(n) == n + 1

\* extract_triangles_with_risk is not running
RiskIdle ==
    /\ colorbar = None
    /\ results = <<>>
    /\ last_triangle = None
    /\ frame_index = 0
    /\ csv = None

Init ==
    /\ date_str \in Dates
    /\ image_files = <<>>
    /\ all_signals = <<>>
    /\ signal_number = 1
    /\ previous_triangles = <<>>
    /\ timestamp = None
    /\ y_axis_info = None
    /\ triangles = <<>>
    /\ new_triangle = None
    /\ branch = "none"
    /\ price = None
    /\ prev_used = <<>>
    /\ signal_frame = <<>>
    /\ pc = "loop"
    /\ call = None
    /\ RiskIdle

\* the loop takes the next file of the sorted list
MoreFiles == pc = "loop" /\ Len(image_files) < MaxFrames

TakeFile(f) ==
    /\ SortedAfter(image_files, f.name)
    /\ image_files' = Append(image_files, f)

\* timestamp is None: continue
SkipUnparsed ==
    /\ MoreFiles
    /\ \E f \in FrameFiles(date_str) :
        /\ TakeFile(f)
        /\ parse_timestamp_from_filename(f.name) = None
        /\ timestamp' = None
        /\ UNCHANGED <<date_str, all_signals, signal_number, previous_triangles,
                       y_axis_info, triangles, new_triangle, branch, price,
                       prev_used, signal_frame, pc, call, riskVars>>

\* a frame with a single triangle counted as empty
NoTrianglesOrOne(detected) == Len(detected) <= 1

\* line 475: if not triangles
NoTriangles(detected) == detected = <<>>

\* no triangles detected: continue
SkipNoTriangles ==
    /\ MoreFiles
    /\ \E f \in FrameFiles(date_str) :
        /\ TakeFile(f)
        /\ parse_timestamp_from_filename(f.name) # None
        /\ NoTriangles(f.triangles)
        /\ timestamp' = parse_timestamp_from_filename(f.name)
        /\ y_axis_info' = f.y_axis_info
        /\ triangles' = f.triangles
        /\ UNCHANGED <<date_str, all_signals, signal_number, previous_triangles,
                       new_triangle, branch, price, prev_used, signal_frame, pc, call, riskVars>>

\* a triangle is selected, priced and appended as a signal
EmitSignal ==
    /\ MoreFiles
    /\ \E f \in FrameFiles(date_str) :
        /\ TakeFile(f)
        /\ parse_timestamp_from_filename(f.name) # None
        /\ ~NoTriangles(f.triangles)
        /\ LET i == Len(image_files)
               ts == parse_timestamp_from_filename(f.name)
               sel == SelectNew(i, f.triangles, previous_triangles)
               p == FramePrice(Y(sel.tri), f.y_axis_info)
           IN /\ timestamp' = ts
              /\ y_axis_info' = f.y_axis_info
              /\ triangles' = f.triangles
              /\ new_triangle' = sel.tri
              /\ branch' = sel.arm
              /\ prev_used' = previous_triangles
              /\ price' = p
              /\ all_signals' = Append(all_signals, MakeSignal(signal_number, ts, p, sel.tri))
              /\ signal_frame' = Append(signal_frame, i + 1)
              /\ signal_number' = NextSignalNumber(signal_number)
              /\ previous_triangles' = f.triangles
        /\ UNCHANGED <<date_str, pc, call, riskVars>>

\* the glob matched nothing: return []
NoImages ==
    /\ pc = "loop"
    /\ image_files = <<>>
    /\ pc' = "returned"
    /\ UNCHANGED <<date_str, image_files, all_signals, signal_number,
                   previous_triangles, timestamp, y_axis_info, triangles,
                   new_triangle, branch, price, prev_used, signal_frame, call,
                   riskVars>>

\* the list is exhausted: return all_signals
ReturnSignals ==
    /\ pc = "loop"
    /\ image_files # <<>>
    /\ pc' = "returned"
    /\ UNCHANGED <<date_str, image_files, all_signals, signal_number,
                   previous_triangles, timestamp, y_axis_info, triangles,
                   new_triangle, branch, price, prev_used, signal_frame, call,
                   riskVars>>

Next ==
    \/ SkipUnparsed
    \/ SkipNoTriangles
    \/ EmitSignal
    \/ NoImages
    \/ ReturnSignals

Spec == Init /\ [][Next]_vars

(***************************************************************************)
(* y_to_price called directly on two rows of one calibration               *)
(***************************************************************************)
Rows == (0 - 1)..(MaxRow + 1)
Bounds == 0..MaxRow
Cents == 0..MaxCents

InitPrice ==
    /\ date_str = ExampleDay
    /\ image_files = <<>>
    /\ all_signals = <<>>
    /\ signal_number = 1
    /\ previous_triangles = <<>>
    /\ timestamp = None
    /\ y_axis_info = None
    /\ triangles = <<>>
    /\ new_triangle = None
    /\ branch = "none"
    /\ price = None
    /\ prev_used = <<>>
    /\ signal_frame = <<>>
    /\ RiskIdle
    /\ pc = "price"
    /\ call \in [y1 : Rows, y2 : Rows, min_price : Cents, max_price : Cents,
                 y_top : Bounds, y_bottom : Bounds, p1 : {None}, p2 : {None},
                 done : {FALSE}]

CallYToPrice ==
    /\ pc = "price"
    /\ ~call.done
    /\ call' = [call EXCEPT
                  !.p1 = y_to_price(call.y1, call.min_price, call.max_price,
                                    call.y_top, call.y_bottom),
                  !.p2 = y_to_price(call.y2, call.min_price, call.max_price,
                                    call.y_top, call.y_bottom),
                  !.done = TRUE]
    /\ UNCHANGED pipeVars

NextPrice == CallYToPrice

SpecPrice == InitPrice /\ [][NextPrice]_vars


(***************************************************************************)
(* extract_y_axis_range: the price-axis calibration of one image           *)
(***************************************************************************)
MaxPasses == 3      \* EasyOCR passes (width, region, scale, method) modelled

BandLow == 400000        \* 4000, in cents
BandHigh == 700000       \* 7000, in cents
MinConfidence == 10      \* confidence > 0.1, in hundredths
EnoughPrices == 3        \* the loops break at 3 accumulated pairs
MinPairs == 2            \* pairs or prices needed for a calibration
Padding == 20            \* rows added around the outermost labels
GridTopPct == 12
GridBottomPct == 88

Heights == {600}

\* one text box of readtext after the regular expressions: the number read
\* (cents), the row of the box centre mapped back to the image (half rows,
\* bbox_y is a float) and the confidence (hundredths)
Tok(p, y2, c) == [price |-> p, y2 |-> y2, confidence |-> c]

\* what one readtext pass can return; the empty list also stands for a pass
\* that raises
Readings ==
    { <<>>,
      <<Tok(500000, 600, 90)>>,
      <<Tok(400000, 21, 90), Tok(700000, 1180, 90)>>,
      <<Tok(399999, 600, 90), Tok(700001, 600, 90)>>,
      <<Tok(500000, 600, 10)>>,
      <<Tok(600000, 801, 90)>> }

\* the numbers the eight image_to_string calls find, in order (cents)
TesseractReadings ==
    { <<>>,
      <<500000>>,
      <<500000, 500000>>,
      <<500000, 600000>>,
      <<100000, 9999999>> }

min(S) == CHOOSE m \in S : \A n \in S : m <= n

max(S) == CHOOSE m \in S : \A n \in S : n <= m

InBand(price_val) == BandLow <= price_val /\ price_val <= BandHigh

\* lines 325-344: the (price_val, bbox_y) pairs one pass appends
Accepted(readtext) ==
    LET ok == SelectSeq(readtext, LAMBDA t : t.confidence > MinConfidence
                                            /\ InBand(t.price))
    IN [k \in 1..Len(ok) |-> <<ok[k].price, ok[k].y2>>]

grid_top(h) == (h * GridTopPct) \div 100

grid_bottom(h) == (h * GridBottomPct) \div 100

\* the fallback condition with the threshold of the early break
NeedsFallbackBelowEnough(n, available) == n < EnoughPrices /\ available

\* line 360
NeedsFallback(n, available) == n < MinPairs /\ available

\* lines 382-390: the calibration from Tesseract's numbers, None without two
\* different ones
FromTesseract(all_prices, h) ==
    LET unique_prices == { all_prices[k] : k \in 1..Len(all_prices) }
    IN IF Len(all_prices) >= MinPairs /\ Cardinality(unique_prices) >= MinPairs
       THEN <<min(unique_prices), max(unique_prices), grid_top(h), grid_bottom(h)>>
       ELSE None

\* the padded rows without the limits 0 and h
FromPairsUnclamped(pairs, h) ==
    LET prices == { pairs[k][1] : k \in 1..Len(pairs) }
        y_positions == { pairs[k][2] : k \in 1..Len(pairs) }
    IN <<min(prices), max(prices),
         (min(y_positions) \div 2) - Padding, (max(y_positions) \div 2) + Padding>>

\* lines 396-409; int() truncates the half rows
FromPairs(pairs, h) ==
    LET prices == { pairs[k][1] : k \in 1..Len(pairs) }
        y_positions == { pairs[k][2] : k \in 1..Len(pairs) }
        y_top == min(y_positions) \div 2
        y_bottom == max(y_positions) \div 2
    IN <<min(prices), max(prices),
         max({0, y_top - Padding}), min({h, y_bottom + Padding})>>

\* the pipeline is not running during a direct call
PipelineIdle ==
    /\ date_str = ExampleDay
    /\ image_files = <<>>
    /\ all_signals = <<>>
    /\ signal_number = 1
    /\ previous_triangles = <<>>
    /\ timestamp = None
    /\ y_axis_info = None
    /\ triangles = <<>>
    /\ new_triangle = None
    /\ branch = "none"
    /\ price = None
    /\ prev_used = <<>>
    /\ signal_frame = <<>>
    /\ RiskIdle

pipeData == <<date_str, image_files, all_signals, signal_number, previous_triangles,
              timestamp, y_axis_info, triangles, new_triangle, branch, price,
              prev_used, signal_frame, riskVars>>

\* img: cv2.imread gave an image; easyocr, tesseract: the engine is available;
\* consulted: image_to_string has been called
InitAxis ==
    /\ PipelineIdle
    /\ pc = "easyocr"
    /\ call \in [h : Heights, img : BOOLEAN, easyocr : BOOLEAN, tesseract : BOOLEAN,
                 passes : {0}, all_detected_prices : {<<>>}, all_prices : {<<>>},
                 consulted : {FALSE}, result : {None}]

\* lines 272-273
ImageUnreadable ==
    /\ pc = "easyocr"
    /\ ~call.img
    /\ pc' = "returned"
    /\ UNCHANGED <<call, pipeData>>

\* lines 321-346: one readtext pass; it is reached only below EnoughPrices
\* pairs (lines 348-355)
EasyOcrPass ==
    /\ pc = "easyocr"
    /\ call.img /\ call.easyocr
    /\ call.passes < MaxPasses
    /\ Len(call.all_detected_prices) < EnoughPrices
    /\ \E readtext \in Readings :
         call' = [call EXCEPT
                    !.passes = @ + 1,
                    !.all_detected_prices = @ \o Accepted(readtext)]
    /\ UNCHANGED <<pc, pipeData>>

\* the loops are left: no EasyOCR, all passes done, or the break
EasyOcrEnd ==
    /\ pc = "easyocr"
    /\ call.img
    /\ \/ ~call.easyocr
       \/ call.passes = MaxPasses
       \/ Len(call.all_detected_prices) >= EnoughPrices
    /\ pc' = "tesseract"
    /\ UNCHANGED <<call, pipeData>>

\* lines 360-392
TesseractFallback ==
    /\ pc = "tesseract"
    /\ NeedsFallback(Len(call.all_detected_prices), call.tesseract)
    /\ \E read \in TesseractReadings :
         LET r == FromTesseract(read, call.h)
         IN /\ call' = [call EXCEPT !.all_prices = read, !.consulted = TRUE,
                                    !.result = r]
            /\ pc' = IF r # None THEN "returned" ELSE "build"
    /\ UNCHANGED pipeData

NoFallback ==
    /\ pc = "tesseract"
    /\ ~NeedsFallback(Len(call.all_detected_prices), call.tesseract)
    /\ pc' = "build"
    /\ UNCHANGED <<call, pipeData>>

\* lines 395-409
BuildCalibration ==
    /\ pc = "build"
    /\ Len(call.all_detected_prices) >= MinPairs
    /\ call' = [call EXCEPT !.result = FromPairs(call.all_detected_prices, call.h)]
    /\ pc' = "returned"
    /\ UNCHANGED pipeData

\* line 411
NoCalibration ==
    /\ pc = "build"
    /\ Len(call.all_detected_prices) < MinPairs
    /\ pc' = "returned"
    /\ UNCHANGED <<call, pipeData>>

NextAxis ==
    \/ ImageUnreadable
    \/ EasyOcrPass
    \/ EasyOcrEnd
    \/ TesseractFallback
    \/ NoFallback
    \/ BuildCalibration
    \/ NoCalibration

SpecAxis == InitAxis /\ [][NextAxis]_vars

AxisReturned == pc = "returned" /\ call.img

PrimaryPairs == call.all_detected_prices

PairPrices == { PrimaryPairs[k][1] : k \in 1..Len(PrimaryPairs) }

PairRows == { PrimaryPairs[k][2] : k \in 1..Len(PrimaryPairs) }


(***************************************************************************)
(* detect_triangles: the orientation of one three-vertex contour           *)
(***************************************************************************)
VertexRows == {10, 45, 50, 80, 90}

RECURSIVE sorted(_)
\* sorted() on a list of integers
sorted(s) ==
    IF s = <<>> THEN <<>>
    ELSE LET rest == sorted(SubSeq(s, 1, Len(s) - 1))
             v == s[Len(s)]
             n == Cardinality({ k \in 1..Len(rest) : rest[k] <= v })
         IN SubSeq(rest, 1, n) \o <<v>> \o SubSeq(rest, n + 1, Len(rest))

abs(v) == IF v < 0 THEN 0 - v ELSE v

\* an equidistant middle vertex counted as buy
OrientationTieBuy(y_coords) ==
    LET sorted_y == sorted(y_coords)
        dist_to_top == abs(sorted_y[2] - sorted_y[1])
        dist_to_bottom == abs(sorted_y[2] - sorted_y[3])
    IN IF dist_to_bottom <= dist_to_top THEN "buy" ELSE "sell"

\* lines 147-159
Orientation(y_coords) ==
    LET sorted_y == sorted(y_coords)
        y_min == sorted_y[1]
        y_max == sorted_y[3]
        y_mid == sorted_y[2]
        dist_to_top == abs(y_mid - y_min)
        dist_to_bottom == abs(y_mid - y_max)
    IN IF dist_to_bottom < dist_to_top THEN "buy" ELSE "sell"

InitOrientation ==
    /\ PipelineIdle
    /\ pc = "orientation"
    /\ call \in [y_coords : [1..3 -> VertexRows], orientation : {"none"}]

ClassifyOrientation ==
    /\ pc = "orientation"
    /\ call' = [call EXCEPT !.orientation = Orientation(call.y_coords)]
    /\ pc' = "classified"
    /\ UNCHANGED pipeData

NextOrientation == ClassifyOrientation

SpecOrientation == InitOrientation /\ [][NextOrientation]_vars

VertexSet == { call.y_coords[k] : k \in 1..3 }

(***************************************************************************)
(* detect_triangles: duplicates removed, then sorted by descending x       *)
(***************************************************************************)
MaxPool == 3        \* candidates appended to triangles before the clean-up

Centres == { <<0, 0>>, <<18, 24>>, <<29, 0>>, <<30, 0>>, <<0, 60>> }

Candidates == { Tri(c[1], c[2], o) : c \in Centres, o \in {"buy", "sell"} }

RECURSIVE UniqueAgainstLast(_, _)
\* a candidate compared with the last kept one only
UniqueAgainstLast(cands, kept) ==
    IF cands = <<>> THEN kept
    ELSE LET triangle == Head(cands)
             is_duplicate == /\ kept # <<>>
                             /\ TooClose(triangle, kept[Len(kept)])
         IN UniqueAgainstLast(Tail(cands),
                              IF is_duplicate THEN kept ELSE Append(kept, triangle))

RECURSIVE Unique(_, _)
\* lines 248-259: kept is unique_triangles
Unique(cands, kept) ==
    IF cands = <<>> THEN kept
    ELSE LET triangle == Head(cands)
             is_duplicate == \E k \in 1..Len(kept) : TooClose(triangle, kept[k])
         IN Unique(Tail(cands),
                   IF is_duplicate THEN kept ELSE Append(kept, triangle))

RECURSIVE SortByXUnstable(_)
\* a descending sort that puts a later equal x first
SortByXUnstable(s) ==
    IF s = <<>> THEN <<>>
    ELSE LET rest == SortByXUnstable(SubSeq(s, 1, Len(s) - 1))
             t == s[Len(s)]
             n == Cardinality({ k \in 1..Len(rest) : X(rest[k]) > X(t) })
         IN SubSeq(rest, 1, n) \o <<t>> \o SubSeq(rest, n + 1, Len(rest))

RECURSIVE SortByX(_)
\* line 261: list.sort(key = x, reverse = True) is stable, equal keys keep
\* their order
SortByX(s) ==
    IF s = <<>> THEN <<>>
    ELSE LET rest == SortByX(SubSeq(s, 1, Len(s) - 1))
             t == s[Len(s)]
             n == Cardinality({ k \in 1..Len(rest) : X(rest[k]) >= X(t) })
         IN SubSeq(rest, 1, n) \o <<t>> \o SubSeq(rest, n + 1, Len(rest))

Pools == UNION { [1..n -> Candidates] : n \in 0..MaxPool }

InitDedup ==
    /\ PipelineIdle
    /\ pc = "dedup"
    /\ call \in [triangles : Pools, unique_triangles : {<<>>}]

RemoveDuplicates ==
    /\ pc = "dedup"
    /\ call' = [call EXCEPT !.unique_triangles = Unique(call.triangles, <<>>)]
    /\ pc' = "sort"
    /\ UNCHANGED pipeData

SortUnique ==
    /\ pc = "sort"
    /\ call' = [call EXCEPT !.unique_triangles = SortByX(@)]
    /\ pc' = "returned"
    /\ UNCHANGED pipeData

NextDedup ==
    \/ RemoveDuplicates
    \/ SortUnique

SpecDedup == InitDedup /\ [][NextDedup]_vars


(***************************************************************************)
(* get_risk_level: a marker colour located on the gradient strip           *)
(***************************************************************************)
MaxStripHeight == 3     \* rows of the strip

ExactTolerance == 3

Palette == {Red, Amber, Green}

\* within 3 of Red, 4 away from Red, Green itself, nearest to Amber
MarkerColors == { <<203, 3, 0>>, NearRed, Green, <<60, 130, 0>> }

\* a strip of width 0 is what load_colorbar cuts from an image less than
\* three pixels wide
StripWidths == {0, 1, 2}

Strips == UNION { [1..h -> [1..w -> Palette]] :
                    h \in 1..MaxStripHeight, w \in StripWidths }

Height(strip) == Len(strip)

Width(strip) == Len(strip[1])

\* lines 82-86
Matches(c, cb) == \A k \in 1..3 : abs(c[k] - cb[k]) <= ExactTolerance

\* lines 78-88: the rows (from 0) with a matching pixel
MatchingRows(triangle_color, strip) ==
    { row \in 0..(Height(strip) - 1) :
        \E col \in 1..Width(strip) :
            Matches(triangle_color, strip[row + 1][col]) }

RECURSIVE SumOf(_)
SumOf(S) == IF S = {} THEN 0
            ELSE LET v == CHOOSE v \in S : TRUE IN v + SumOf(S \ {v})

\* the square of the distance of line 106
Distance2(c, cb) ==
    (c[1] - cb[1]) * (c[1] - cb[1]) + (c[2] - cb[2]) * (c[2] - cb[2])
        + (c[3] - cb[3]) * (c[3] - cb[3])

\* the last row of the middle column at the least distance
BestRowLastTie(triangle_color, strip) ==
    LET mid_col == Width(strip) \div 2
        d(row) == Distance2(triangle_color, strip[row + 1][mid_col + 1])
    IN max({ row \in 0..(Height(strip) - 1) :
               \A other \in 0..(Height(strip) - 1) : d(row) <= d(other) })

\* lines 94-111: the first row of the middle column at the least distance;
\* the marker's channels are numpy int64 (astype(int) in detect_triangles),
\* so the differences and squares do not wrap
BestRow(triangle_color, strip) ==
    LET mid_col == Width(strip) \div 2
        d(row) == Distance2(triangle_color, strip[row + 1][mid_col + 1])
    IN min({ row \in 0..(Height(strip) - 1) :
               \A other \in 0..(Height(strip) - 1) : d(row) <= d(other) })

\* lines 90-111: avg_row
RiskRow(triangle_color, strip) ==
    LET matching_rows == MatchingRows(triangle_color, strip)
    IN IF matching_rows # {}
       THEN SumOf(matching_rows) \div Cardinality(matching_rows)
       ELSE BestRow(triangle_color, strip)

\* the tiers upside down
RiskOfRowInverted(avg_row, height) ==
    LET third_height == height \div 3
    IN IF avg_row < third_height THEN "low"
       ELSE IF avg_row < 2 * third_height THEN "medium"
       ELSE "high"

\* lines 113-122
RiskOfRow(avg_row, height) ==
    LET third_height == height \div 3
    IN IF avg_row < third_height THEN "high"
       ELSE IF avg_row < 2 * third_height THEN "medium"
       ELSE "low"

\* colorbar.size == 0
Empty(strip) == Height(strip) * Width(strip) * 3 = 0

get_risk_level(triangle_color, strip) ==
    IF strip = None THEN "unknown"
    ELSE IF Empty(strip) THEN "unknown"
    ELSE RiskOfRow(RiskRow(triangle_color, strip), Height(strip))

InitRiskLevel ==
    /\ PipelineIdle
    /\ pc = "risk"
    /\ call \in [triangle_color : MarkerColors, colorbar : Strips \cup {None},
                 avg_row : {0 - 1}, risk_level : {"none"}]

CallGetRiskLevel ==
    /\ pc = "risk"
    /\ call' = [call EXCEPT
                  !.avg_row = IF get_risk_level(call.triangle_color, call.colorbar)
                                   = "unknown"
                              THEN @
                              ELSE RiskRow(call.triangle_color, call.colorbar),
                  !.risk_level = get_risk_level(call.triangle_color, call.colorbar)]
    /\ pc' = "classified"
    /\ UNCHANGED pipeData

NextRiskLevel == CallGetRiskLevel

SpecRiskLevel == InitRiskLevel /\ [][NextRiskLevel]_vars


(***************************************************************************)
(* extract_triangles_with_risk: one record per frame with a new marker     *)
(***************************************************************************)
\* load_colorbar: None for a missing or unreadable image, otherwise the left
\* third of the image, which is empty for an image less than three wide
EmptyStrip == << <<>>, <<>>, <<>> >>
GradientStrip == << <<Red>>, <<Amber>>, <<Green>> >>
Colorbars == {None, EmptyStrip, GradientStrip}

\* what the image primitives return for the file at one place of the folder;
\* the content of a file whose name does not parse is never read
RunContents ==
    { [parsed |-> TRUE, triangles |-> l, y_axis_info |-> c, img |-> TRUE] :
        l \in {<<>>, <<T100>>, <<T140, T100>>}, c \in {None, CalA} }
    \cup { [parsed |-> FALSE, triangles |-> <<>>, y_axis_info |-> None, img |-> TRUE],
           [parsed |-> TRUE, triangles |-> <<>>, y_axis_info |-> None, img |-> FALSE] }

FileAt(j, c) ==
    [name |-> <<ExampleDay, 2 * (j - 1) + (IF c.parsed THEN 0 ELSE 1), 0>>,
     triangles |-> c.triangles,
     y_axis_info |-> c.y_axis_info,
     img |-> c.img]

\* sorted(folder_path.glob(pattern))
Folders ==
    UNION { { [j \in 1..n |-> FileAt(j, c[j])] : c \in [1..n -> RunContents] } :
              n \in 0..MaxFrames }

\* the leftmost triangle taken as the last one
SelectLastLeftmost(i, cur, prev) == MinByX(cur)

\* lines 190-208
SelectLast(i, cur, prev) ==
    LET rightmost == MaxByX(cur)
        candidates == SelectSeq(cur, LAMBDA t : X(t) > MaxX(prev) + CandidateDelta)
    IN IF i = 0 THEN rightmost
       ELSE IF prev = <<>> THEN rightmost
       ELSE IF X(rightmost) > MaxX(prev) + ConfidentDelta THEN rightmost
       ELSE IF candidates # <<>> THEN MaxByX(candidates)
       ELSE rightmost

\* lines 165-179, 213-216: the price bounds are taken from y_axis_info only
RunPrice(center_y, info) ==
    IF info # None
    THEN y_to_price(center_y, info[1], info[2], info[3], info[4])
    ELSE None

\* lines 218-229
MakeResult(ts, p, tri, strip) ==
    [timestamp |-> strftime(ts),
     price |-> IF p # None THEN Round2(p) ELSE None,
     color |-> tri.color,
     risk_level |-> get_risk_level(tri.color, strip)]

InitRun ==
    /\ date_str = ExampleDay
    /\ image_files \in Folders
    /\ colorbar \in Colorbars
    /\ results = <<>>
    /\ last_triangle = None
    /\ frame_index = 0
    /\ csv = None
    /\ all_signals = <<>>
    /\ signal_number = 1
    /\ previous_triangles = <<>>
    /\ timestamp = None
    /\ y_axis_info = None
    /\ triangles = <<>>
    /\ new_triangle = None
    /\ branch = "none"
    /\ price = None
    /\ prev_used = <<>>
    /\ signal_frame = <<>>
    /\ pc = "load"
    /\ call = None

signalVars == <<all_signals, signal_number, new_triangle, branch, prev_used,
                signal_frame, call>>

\* lines 138-141: return [] without the colorbar
ColorbarMissing ==
    /\ pc = "load"
    /\ colorbar = None
    /\ pc' = "returned"
    /\ UNCHANGED <<date_str, image_files, previous_triangles, timestamp, y_axis_info,
                   triangles, price, riskVars, signalVars>>

\* lines 147-149
RunNoImages ==
    /\ pc = "load"
    /\ colorbar # None
    /\ image_files = <<>>
    /\ pc' = "returned"
    /\ UNCHANGED <<date_str, image_files, previous_triangles, timestamp, y_axis_info,
                   triangles, price, riskVars, signalVars>>

\* lines 154-157
RunLoop ==
    /\ pc = "load"
    /\ colorbar # None
    /\ image_files # <<>>
    /\ pc' = "loop"
    /\ UNCHANGED <<date_str, image_files, previous_triangles, timestamp, y_axis_info,
                   triangles, price, riskVars, signalVars>>

RunMoreFiles == pc = "loop" /\ frame_index < Len(image_files)

\* lines 158-160: continue
RunSkipUnparsed ==
    /\ RunMoreFiles
    /\ LET f == image_files[frame_index + 1]
       IN /\ parse_timestamp_from_filename(f.name) = None
          /\ timestamp' = None
    /\ frame_index' = frame_index + 1
    /\ UNCHANGED <<date_str, image_files, previous_triangles, y_axis_info, triangles,
                   price, colorbar, results, last_triangle, csv, pc, signalVars>>

\* lines 165-188: continue
RunSkipNoTriangles ==
    /\ RunMoreFiles
    /\ LET f == image_files[frame_index + 1]
       IN /\ parse_timestamp_from_filename(f.name) # None
          /\ f.triangles = <<>>
          /\ timestamp' = parse_timestamp_from_filename(f.name)
          /\ y_axis_info' = f.y_axis_info
          /\ triangles' = f.triangles
    /\ frame_index' = frame_index + 1
    /\ UNCHANGED <<date_str, image_files, previous_triangles, price, colorbar,
                   results, last_triangle, csv, pc, signalVars>>

\* lines 165-232
RunAppend ==
    /\ RunMoreFiles
    /\ LET f == image_files[frame_index + 1]
           ts == parse_timestamp_from_filename(f.name)
       IN /\ ts # None
          /\ f.triangles # <<>>
          /\ LET tri == SelectLast(frame_index, f.triangles, previous_triangles)
                 p == RunPrice(Y(tri), f.y_axis_info)
             IN /\ timestamp' = ts
                /\ y_axis_info' = f.y_axis_info
                /\ triangles' = f.triangles
                /\ last_triangle' = tri
                /\ price' = p
                /\ results' = Append(results, MakeResult(ts, p, tri, colorbar))
                /\ previous_triangles' = f.triangles
    /\ frame_index' = frame_index + 1
    /\ UNCHANGED <<date_str, image_files, colorbar, csv, pc, signalVars>>

\* line 237
RunReturn ==
    /\ pc = "loop"
    /\ frame_index = Len(image_files)
    /\ pc' = "returned"
    /\ UNCHANGED <<date_str, image_files, previous_triangles, timestamp, y_axis_info,
                   triangles, price, riskVars, signalVars>>

NextRun ==
    \/ ColorbarMissing
    \/ RunNoImages
    \/ RunLoop
    \/ RunSkipUnparsed
    \/ RunSkipNoTriangles
    \/ RunAppend
    \/ RunReturn

SpecRun == InitRun /\ [][NextRun]_vars

(***************************************************************************)
(* The two passes over one day's folder: extract_signals_sequential, then  *)
(* extract_triangles_with_risk on the same files (merge_risk_levels.py     *)
(* line 222)                                                               *)
(***************************************************************************)
\* extract_signals_sequential has returned and the second pass is called:
\* load_colorbar, results = [], previous_triangles = []
StartRiskRun ==
    /\ pc = "returned"
    /\ colorbar = None
    /\ colorbar' \in Colorbars
    /\ results' = <<>>
    /\ previous_triangles' = <<>>
    /\ last_triangle' = None
    /\ frame_index' = 0
    /\ pc' = "load"
    /\ UNCHANGED <<date_str, image_files, timestamp, y_axis_info, triangles, price,
                   csv, signalVars>>

FirstPass == colorbar = None /\ pc # "load"

SecondPass == colorbar # None \/ pc = "load"

NextBoth ==
    \/ FirstPass /\ SkipUnparsed
    \/ FirstPass /\ SkipNoTriangles
    \/ FirstPass /\ EmitSignal
    \/ FirstPass /\ NoImages
    \/ FirstPass /\ ReturnSignals
    \/ StartRiskRun
    \/ SecondPass /\ ColorbarMissing
    \/ SecondPass /\ RunNoImages
    \/ SecondPass /\ RunLoop
    \/ SecondPass /\ RunSkipUnparsed
    \/ SecondPass /\ RunSkipNoTriangles
    \/ SecondPass /\ RunAppend
    \/ SecondPass /\ RunReturn

SpecBoth == Init /\ [][NextBoth]_vars

\* the second pass has returned its records
RunReturned ==
    /\ pc = "returned"
    /\ colorbar # None
    /\ frame_index = Len(image_files)



(***************************************************************************)
(* merge_risk_levels: the risk column of a day's CSV file.  A timestamp    *)
(* text is <<day, second>> in the full format, <<second>> in the time-only *)
(* format and <<>> when it is neither; all texts are of the day date_str.  *)
(***************************************************************************)
MaxCsvRows == 2
MaxRecords == 2
MaxSecond == 2

\* float('inf')
Infinity == 1000000

\* within 1 second
Tolerance == 1

RiskLevels == {"low", "high"}

FullTexts == { <<ExampleDay, sec>> : sec \in 0..MaxSecond }

TimestampTexts == FullTexts \cup { <<sec>> : sec \in 0..MaxSecond } \cup { <<>> }

CsvColumns == UNION { [1..n -> TimestampTexts] : n \in 0..MaxCsvRows }

\* the records of extract_triangles_with_risk carry strftime's full format
RiskResults ==
    UNION { [1..n -> [timestamp : FullTexts, risk_level : RiskLevels]] :
              n \in 0..MaxRecords }

\* parse_timestamp_for_merge, and pd.to_datetime with the time-only retry
parse_timestamp_for_merge(timestamp_str, day) ==
    IF Len(timestamp_str) = 2 THEN timestamp_str
    ELSE IF Len(timestamp_str) = 1 THEN <<day, timestamp_str[1]>>
    ELSE None

\* abs((ts_parsed - risk_ts).total_seconds()) for two datetimes of one day
total_seconds(a, b) == abs(a[2] - b[2])

\* risk_lookup[key] = val: a new key goes last, a known key keeps its place
Put(lookup, key, val) ==
    IF \E j \in 1..Len(lookup) : lookup[j][1] = key
    THEN [j \in 1..Len(lookup) |->
            IF lookup[j][1] = key THEN <<key, val>> ELSE lookup[j]]
    ELSE Append(lookup, <<key, val>>)

\* lines 98-106 over the first n records
RECURSIVE risk_lookup(_, _, _)
risk_lookup(risk_results, n, day) ==
    IF n = 0 THEN <<>>
    ELSE LET ts_parsed == parse_timestamp_for_merge(risk_results[n].timestamp, day)
             before == risk_lookup(risk_results, n - 1, day)
         IN IF ts_parsed # None
            THEN Put(before, ts_parsed, risk_results[n].risk_level)
            ELSE before

\* lines 133-140 over the first n items of the dictionary
RECURSIVE Closest(_, _, _)
Closest(lookup, n, ts_parsed) ==
    IF n = 0 THEN [min_diff |-> Infinity, matched_risk |-> "None"]
    ELSE LET sofar == Closest(lookup, n - 1, ts_parsed)
             diff == total_seconds(ts_parsed, lookup[n][1])
         IN IF diff < sofar.min_diff /\ diff <= Tolerance
            THEN [min_diff |-> diff, matched_risk |-> lookup[n][2]]
            ELSE sofar

\* lines 127-142 for one row
RiskValue(timestamp_str, lookup, day) ==
    LET ts_parsed == parse_timestamp_for_merge(timestamp_str, day)
    IN IF ts_parsed = None THEN ""
       ELSE LET matched_risk == Closest(lookup, Len(lookup), ts_parsed).matched_risk
            IN IF matched_risk = "None" THEN "" ELSE matched_risk

\* lines 97-148: the new risk column
risk_values(column, risk_results, day) ==
    LET lookup == risk_lookup(risk_results, Len(risk_results), day)
    IN [k \in 1..Len(column) |-> RiskValue(column[k], lookup, day)]

\* exists: the CSV file is there; column: its timestamp column
InitMerge ==
    /\ PipelineIdle
    /\ pc = "merge"
    /\ call \in { c \in [exists : BOOLEAN, column : CsvColumns,
                         risk_results : RiskResults, risk : {<<>>},
                         returned : {"none"}] :
                    ~c.exists => c.column = <<>> }

\* lines 81-83
CsvNotFound ==
    /\ pc = "merge"
    /\ ~call.exists
    /\ call' = [call EXCEPT !.returned = "False"]
    /\ pc' = "returned"
    /\ UNCHANGED pipeData

\* lines 85-156
MergeRiskLevels ==
    /\ pc = "merge"
    /\ call.exists
    /\ call' = [call EXCEPT
                  !.risk = risk_values(call.column, call.risk_results, date_str),
                  !.returned = "True"]
    /\ pc' = "returned"
    /\ UNCHANGED pipeData

NextMerge == CsvNotFound \/ MergeRiskLevels

SpecMerge == InitMerge /\ [][NextMerge]_vars


(***************************************************************************)
(* DiscordImageDownloader._make_request: one HTTP request with retries.    *)
(* call.history lists what each HTTP attempt met, call.attempt is the loop *)
(* variable, call.returned the value handed to the caller ("raised" when   *)
(* an exception leaves the method).                                        *)
(***************************************************************************)
MAX_RETRIES == 3

\* what one attempt can meet: status 200 with a JSON body, status 200 with a
\* body response.json() rejects, 429 with and without an integer Retry-After,
\* 404, a status raise_for_status raises on, another status below 400,
\* asyncio.TimeoutError, any other exception of session.request
Outcomes ==
    {"200", "200_bad_body", "429", "429_bad_header", "404", "500", "204",
     "timeout", "error"}

\* the exceptions caught at line 85
RaisesException == {"200_bad_body", "429_bad_header", "500", "error"}

InitRequest ==
    /\ PipelineIdle
    /\ pc = "request"
    /\ call = [attempt |-> 0, history |-> <<>>, returned |-> "none"]

InLoop == pc = "request" /\ call.attempt < MAX_RETRIES

Attempted(outcome) == Append(call.history, outcome)

\* lines 74-75
Respond200 ==
    /\ InLoop
    /\ call' = [call EXCEPT !.history = Attempted("200"), !.returned = "json"]
    /\ pc' = "returned"
    /\ UNCHANGED pipeData

\* lines 76-77
Respond404 ==
    /\ InLoop
    /\ call' = [call EXCEPT !.history = Attempted("404"), !.returned = "None"]
    /\ pc' = "returned"
    /\ UNCHANGED pipeData

\* lines 65-72: sleep and continue
RateLimited ==
    /\ InLoop
    /\ call' = [call EXCEPT !.history = Attempted("429"), !.attempt = @ + 1]
    /\ UNCHANGED <<pc, pipeData>>

\* lines 78-79 with a status raise_for_status accepts: the loop goes on
RespondOther ==
    /\ InLoop
    /\ call' = [call EXCEPT !.history = Attempted("204"), !.attempt = @ + 1]
    /\ UNCHANGED <<pc, pipeData>>

\* lines 80-84: retried, raised again on the last attempt
TimedOut ==
    /\ InLoop
    /\ IF call.attempt < MAX_RETRIES - 1
       THEN /\ call' = [call EXCEPT !.history = Attempted("timeout"),
                                     !.attempt = @ + 1]
            /\ pc' = pc
       ELSE /\ call' = [call EXCEPT !.history = Attempted("timeout"),
                                     !.returned = "raised"]
            /\ pc' = "raised"
    /\ UNCHANGED pipeData

\* lines 85-90: retried, None on the last attempt
Failed ==
    /\ InLoop
    /\ \E outcome \in RaisesException :
          IF call.attempt < MAX_RETRIES - 1
          THEN /\ call' = [call EXCEPT !.history = Attempted(outcome),
                                        !.attempt = @ + 1]
               /\ pc' = pc
          ELSE /\ call' = [call EXCEPT !.history = Attempted(outcome),
                                        !.returned = "None"]
               /\ pc' = "returned"
    /\ UNCHANGED pipeData

\* line 92: the loop is exhausted
RetriesExhausted ==
    /\ pc = "request"
    /\ call.attempt = MAX_RETRIES
    /\ call' = [call EXCEPT !.returned = "None"]
    /\ pc' = "returned"
    /\ UNCHANGED pipeData

NextRequest ==
    \/ Respond200
    \/ Respond404
    \/ RateLimited
    \/ RespondOther
    \/ TimedOut
    \/ Failed
    \/ RetriesExhausted

SpecRequest == InitRequest /\ [][NextRequest]_vars


(***************************************************************************)
(* process_date: the day's signals, then the day's CSV                     *)
(***************************************************************************)
\* a CSV left by an earlier run
OldCsv == << [signal_no |-> 9, timestamp |-> <<ExampleDay, 0>>, price |-> None,
              buy_sell |-> "Sell"] >>

\* lines 565-570: the price column is empty for a signal without price
CsvRow(signal) ==
    [signal_no |-> signal.signal_no,
     timestamp |-> signal.timestamp,
     price |-> IF signal.price # None THEN signal.price ELSE None,
     buy_sell |-> signal.buy_sell]

CsvRows(signals) == [k \in 1..Len(signals) |-> CsvRow(signals[k])]

InitDate ==
    /\ date_str \in {ExampleDay, NamingDay}
    /\ image_files = <<>>
    /\ all_signals = <<>>
    /\ signal_number = 1
    /\ previous_triangles = <<>>
    /\ timestamp = None
    /\ y_axis_info = None
    /\ triangles = <<>>
    /\ new_triangle = None
    /\ branch = "none"
    /\ price = None
    /\ prev_used = <<>>
    /\ signal_frame = <<>>
    /\ pc \in {"loop", "nofolder"}
    /\ call = None
    /\ colorbar = None
    /\ results = <<>>
    /\ last_triangle = None
    /\ frame_index = 0
    /\ csv \in {None, OldCsv}

dateData == <<date_str, image_files, all_signals, signal_number, previous_triangles,
              timestamp, y_axis_info, triangles, new_triangle, branch, price,
              prev_used, signal_frame, call, colorbar, results, last_triangle,
              frame_index>>

\* lines 539-541
FolderMissing ==
    /\ pc = "nofolder"
    /\ pc' = "done"
    /\ UNCHANGED <<dateData, csv>>

\* the run is interrupted while extract_signals_sequential is between two
\* frames
AbortBetweenFrames ==
    /\ pc = "loop"
    /\ pc' = "aborted"
    /\ UNCHANGED <<dateData, csv>>

\* lines 550-552
NoSignalsExtracted ==
    /\ pc = "returned"
    /\ all_signals = <<>>
    /\ pc' = "done"
    /\ UNCHANGED <<dateData, csv>>

\* the file is opened for writing as soon as the loop has seen a signal
CanWriteEarly == pc \in {"loop", "returned"}

\* line 548: the file is opened after extract_signals_sequential has returned
CanWrite == pc = "returned"

\* lines 554-572
SaveCsv ==
    /\ CanWrite
    /\ all_signals # <<>>
    /\ csv' = CsvRows(all_signals)
    /\ pc' = "saved"
    /\ UNCHANGED dateData

NextDate ==
    \/ Next
    \/ FolderMissing
    \/ AbortBetweenFrames
    \/ NoSignalsExtracted
    \/ SaveCsv

SpecDate == InitDate /\ [][NextDate]_vars


(***************************************************************************)
(* Properties                                                              *)
(***************************************************************************)
FrameOf(k) == image_files[signal_frame[k]]

Parsed(f) == parse_timestamp_from_filename(f.name) # None

ListsOf(files) == [k \in 1..Len(files) |-> files[k].triangles]

SignalsOfFrame(n) == { k \in 1..Len(all_signals) : signal_frame[k] = n }

\* the last file taken is the one that produced the last signal
JustEmitted ==
    /\ signal_frame # <<>>
    /\ signal_frame[Len(signal_frame)] = Len(image_files)

XsOf(s) == { X(s[k]) : k \in 1..Len(s) }

SetMax(S) == CHOOSE m \in S : \A n \in S : n <= m

FracLeq(p, q) == p[1] * q[2] <= q[1] * p[2]

FracEq(p, q) == p[1] * q[2] = q[1] * p[2]

C1Day == << <<T100>>, <<T140, T100>> , <<T140, T100>> >>

\* C1: a frame whose triangle list repeats the previous frame's list adds no
\* signal: the day  [buy@100], [sell@140, buy@100], [sell@140, buy@100]
\* returns exactly two signals, 1 = Buy at frame 1's timestamp and 2 = Sell
\* at frame 2's timestamp.
C1_RepeatedFrameAddsNoSignal ==
    (pc = "returned" /\ ListsOf(image_files) = C1Day)
    => /\ Len(all_signals) = 2
       /\ SignalsOfFrame(3) = {}
       /\ all_signals[1].signal_no = 1
       /\ all_signals[1].buy_sell = "Buy"
       /\ all_signals[1].timestamp
             = strftime(parse_timestamp_from_filename(image_files[1].name))
       /\ all_signals[2].signal_no = 2
       /\ all_signals[2].buy_sell = "Sell"
       /\ all_signals[2].timestamp
             = strftime(parse_timestamp_from_filename(image_files[2].name))

\* C2: once a frame has been processed, previous_triangles is that frame's
\* full triangle list, the empty list included.
C2_PreviousIsLastFrame ==
    (image_files # <<>> /\ timestamp # None)
    => previous_triangles = image_files[Len(image_files)].triangles

\* C3: the k-th signal of the list carries sequence number k.
C3_SequenceNumbers ==
    \A k \in 1..Len(all_signals) : all_signals[k].signal_no = k

\* two signals with a skipped frame between their frames
C3_Witness ==
    /\ Len(all_signals) >= 2
    /\ signal_frame[2] > signal_frame[1] + 1

\* C4 as stated: signals are strictly ordered by timestamp (no two share
\* one), each carrying the timestamp of its frame.
C4_StrictlyOrdered ==
    /\ \A a, b \in 1..Len(all_signals) :
          a < b => all_signals[a].timestamp[2] < all_signals[b].timestamp[2]
    /\ \A k \in 1..Len(all_signals) :
          all_signals[k].timestamp
             = strftime(parse_timestamp_from_filename(FrameOf(k).name))

\* C4 amended: signals follow frame order with non-decreasing timestamps,
\* each carrying the timestamp of its frame; two signals share a timestamp
\* exactly when their frames' names carry the same time field.
C4_OrderedByTimestamp ==
    /\ \A a, b \in 1..Len(all_signals) :
          a < b =>
            /\ signal_frame[a] < signal_frame[b]
            /\ all_signals[a].timestamp[2] <= all_signals[b].timestamp[2]
            /\ (all_signals[a].timestamp = all_signals[b].timestamp)
                  <=> (FrameOf(a).name[2] = FrameOf(b).name[2])
    /\ \A k \in 1..Len(all_signals) :
          all_signals[k].timestamp
             = strftime(parse_timestamp_from_filename(FrameOf(k).name))

\* two signals of one second, and a later one
C4_Witness ==
    /\ Len(all_signals) >= 3
    /\ all_signals[1].timestamp = all_signals[2].timestamp
    /\ all_signals[2].timestamp[2] < all_signals[3].timestamp[2]

\* C5: the selection follows the three-step rule with strict thresholds:
\* first frame or empty previous list -> largest x; else rightmost if its x
\* exceeds max_prev_x + 20; else the largest x among those beyond
\* max_prev_x + 10 if any; else rightmost.  With max_prev_x = 500,
\* {510, 525} selects 525 and {505, 508} selects 508 by fallback.
C5_TrackerRule ==
    JustEmitted =>
      LET i == Len(image_files) - 1
          top == SetMax(XsOf(triangles))
      IN /\ \E k \in 1..Len(triangles) : triangles[k] = new_triangle
         /\ IF i = 0 \/ prev_used = <<>>
            THEN X(new_triangle) = top
            ELSE LET m == SetMax(XsOf(prev_used))
                     beyond == { x \in XsOf(triangles) : x > m + 10 }
                 IN /\ IF top > m + 20
                       THEN X(new_triangle) = top /\ branch = "confident"
                       ELSE IF beyond # {}
                       THEN X(new_triangle) = SetMax(beyond) /\ branch = "candidate"
                       ELSE X(new_triangle) = top /\ branch = "fallback"
                    /\ (m = 500 /\ XsOf(triangles) = {510, 525})
                          => X(new_triangle) = 525
                    /\ (m = 500 /\ XsOf(triangles) = {505, 508})
                          => (X(new_triangle) = 508 /\ branch = "fallback")

\* previous maximum 500, candidates {505, 508}: the fallback arm picked 508
C5_Witness ==
    /\ JustEmitted
    /\ Len(image_files) > 1
    /\ prev_used # <<>>
    /\ SetMax(XsOf(prev_used) \cup {0}) = 500
    /\ XsOf(triangles) = {505, 508}
    /\ X(new_triangle) = 508

C7_PriceFromOwnFrame ==
    \A k \in 1..Len(all_signals) :
       LET info == FrameOf(k).y_axis_info
           sig == all_signals[k]
       IN /\ sig.y_coordinate = Y(sig.triangle)
          /\ IF info = None
             THEN sig.price = None
             ELSE LET p == y_to_price(sig.y_coordinate, info[1], info[2], info[3], info[4])
                  IN sig.price = (IF p = None THEN None ELSE Round2(p))

\* a priced signal under one calibration, then a signal of a frame without
\* calibration, then a signal priced under another calibration
C7_Witness ==
    /\ Len(all_signals) >= 3
    /\ FrameOf(1).y_axis_info = CalA
    /\ all_signals[1].price # None
    /\ FrameOf(2).y_axis_info = None
    /\ all_signals[2].price = None
    /\ FrameOf(3).y_axis_info = CalB
    /\ all_signals[3].price # None

ValidCall ==
    /\ call.done
    /\ call.y_bottom > call.y_top
    /\ call.max_price > call.min_price

\* C8: under a calibration with y_bottom > y_top and max_price > min_price,
\* a lower row never gets a higher price: y1 <= y2 => price(y1) >= price(y2).
C8_Monotone ==
    (ValidCall /\ call.y1 <= call.y2) => FracLeq(call.p2, call.p1)

\* two rows inside the plot with strictly different prices
C8_Witness ==
    /\ ValidCall
    /\ call.y1 < call.y2
    /\ ~FracLeq(call.p1, call.p2)

\* C9: under such a calibration every row's price lies in
\* [min_price, max_price]; rows at or above y_top give max_price, rows at or
\* below y_bottom give min_price.
C9_Clamped ==
    ValidCall =>
      /\ FracLeq(Frac(call.min_price, 1), call.p1)
      /\ FracLeq(call.p1, Frac(call.max_price, 1))
      /\ call.y1 <= call.y_top => FracEq(call.p1, Frac(call.max_price, 1))
      /\ call.y1 >= call.y_bottom => FracEq(call.p1, Frac(call.min_price, 1))

\* one row above y_top and one below y_bottom
C9_Witness ==
    /\ ValidCall
    /\ call.y1 < call.y_top
    /\ call.y2 > call.y_bottom
    /\ FracEq(call.p1, Frac(call.max_price, 1))
    /\ FracEq(call.p2, Frac(call.min_price, 1))

\* C10: with a calibration present, the price is absent exactly when
\* y_top = y_bottom, and a frame with such a calibration and a triangle still
\* yields its signal, with an absent price.
C10_DegenerateNoPrice ==
    /\ \A k \in 1..Len(all_signals) :
          LET info == FrameOf(k).y_axis_info
          IN info # None => ((all_signals[k].price = None) <=> (info[3] = info[4]))
    /\ \A n \in 1..Len(image_files) :
          LET f == image_files[n]
          IN (/\ Parsed(f) /\ f.triangles # <<>>
              /\ f.y_axis_info # None /\ f.y_axis_info[3] = f.y_axis_info[4])
             => \E k \in SignalsOfFrame(n) : all_signals[k].price = None
    /\ (JustEmitted /\ y_axis_info # None)
          => ((price = None) <=> (y_axis_info[3] = y_axis_info[4]))

\* a signal without price from a degenerate calibration, then a priced one
C10_Witness ==
    /\ Len(all_signals) >= 2
    /\ FrameOf(1).y_axis_info = CalDegenerate
    /\ all_signals[1].price = None
    /\ all_signals[2].price # None


\* C11: a parsed frame with at least one triangle and no calibration
\* (y_axis_info is None) still produces exactly one signal, with the frame's
\* timestamp, the orientation of one of its triangles, its own position as
\* sequence number and no price; the loop goes on with the frames after it.
C11_SignalWithoutCalibration ==
    /\ \A n \in 1..Len(image_files) :
          LET f == image_files[n]
          IN (Parsed(f) /\ f.triangles # <<>> /\ f.y_axis_info = None)
             => /\ Cardinality(SignalsOfFrame(n)) = 1
                /\ \A k \in SignalsOfFrame(n) :
                      /\ all_signals[k].price = None
                      /\ all_signals[k].signal_no = k
                      /\ all_signals[k].timestamp
                            = strftime(parse_timestamp_from_filename(f.name))
                      /\ \E j \in 1..Len(f.triangles) :
                            all_signals[k].buy_sell
                               = Capitalize(f.triangles[j].orientation)
    /\ (JustEmitted /\ y_axis_info = None) => price = None

\* an uncalibrated frame gives signal 1 without price, and the calibrated
\* frame after it gives signal 2 with a price
C11_Witness ==
    /\ Len(all_signals) = 2
    /\ FrameOf(1).y_axis_info = None
    /\ all_signals[1].price = None
    /\ FrameOf(2).y_axis_info = CalA
    /\ all_signals[2].price # None
    /\ all_signals[2].signal_no = 2


\* C12: every calibration extract_y_axis_range returns has
\* y_bottom > y_top and max_price > min_price, also when the recognised
\* pairs repeat a price or a position.
C12_CalibrationValid ==
    (AxisReturned /\ call.result # None)
    => /\ call.result[4] > call.result[3]
       /\ call.result[2] > call.result[1]

\* C13: every calibration returned, from EasyOCR's pairs or from
\* Tesseract's numbers, has 4000 <= min_price and max_price <= 7000.
C13_PricesInBand ==
    (AxisReturned /\ call.result # None)
    => /\ BandLow <= call.result[1]
       /\ call.result[2] <= BandHigh

\* C14: Tesseract is consulted only below two accepted EasyOCR pairs; with
\* two or more the calibration comes from those pairs alone; a calibration
\* from Tesseract has y_top, y_bottom = 12% and 88% of the image height.
C14_FallbackOnlyBelowTwo ==
    /\ call.consulted => Len(PrimaryPairs) < MinPairs
    /\ (AxisReturned /\ Len(PrimaryPairs) >= MinPairs)
          => /\ ~call.consulted
             /\ call.all_prices = <<>>
             /\ call.result # None
             /\ call.result[1] \in PairPrices
             /\ call.result[2] \in PairPrices
    /\ (AxisReturned /\ call.consulted /\ call.result # None)
          => /\ 100 * call.result[3] <= GridTopPct * call.h
             /\ 100 * (call.result[3] + 1) > GridTopPct * call.h
             /\ 100 * call.result[4] <= GridBottomPct * call.h
             /\ 100 * (call.result[4] + 1) > GridBottomPct * call.h
             /\ \A k \in 1..2 : \E j \in 1..Len(call.all_prices) :
                   call.result[k] = call.all_prices[j]

\* one accepted pair only, and a calibration from Tesseract's two numbers
C14_Witness ==
    /\ AxisReturned
    /\ Len(PrimaryPairs) = 1
    /\ call.consulted
    /\ call.result = <<500000, 600000, 72, 528>>


\* C15 as stated: with two or more EasyOCR pairs the calibration is
\* (minimum price, maximum price, smallest position - 20, largest position
\* + 20).  Positions are in half rows.
C15_PaddedBounds ==
    (AxisReturned /\ Len(PrimaryPairs) >= MinPairs)
    => /\ call.result # None
       /\ call.result[1] = min(PairPrices)
       /\ call.result[2] = max(PairPrices)
       /\ 2 * call.result[3] = min(PairRows) - 2 * Padding
       /\ 2 * call.result[4] = max(PairRows) + 2 * Padding

\* C15: with two or more EasyOCR pairs the calibration is (minimum price,
\* maximum price, y_top, y_bottom) where y_top is the smallest position cut
\* to a whole row minus 20 but not below 0, and y_bottom the largest position
\* cut to a whole row plus 20 but not above the image height.
C15_PaddedBoundsInImage ==
    (AxisReturned /\ Len(PrimaryPairs) >= MinPairs)
    => LET top == min(PairRows) \div 2
           bottom == max(PairRows) \div 2
       IN /\ call.result # None
          /\ call.result[1] = min(PairPrices)
          /\ call.result[2] = max(PairPrices)
          /\ call.result[3] = (IF top >= Padding THEN top - Padding ELSE 0)
          /\ call.result[4] = (IF bottom + Padding <= call.h THEN bottom + Padding
                                                              ELSE call.h)

\* labels at rows 10.5 and 590 of a 600-row image: both bounds are cut to the
\* image
C15_Witness ==
    /\ AxisReturned
    /\ PrimaryPairs = << <<400000, 21>>, <<700000, 1180>> >>
    /\ call.result = <<400000, 700000, 0, 600>>


\* C16: a contour is buy exactly when its middle vertex is nearer to the
\* bottom vertex than to the top one, (y_max - y_mid) < (y_mid - y_min), and
\* sell otherwise, the equidistant case included; rows {10, 80, 90} give buy.
C16_Orientation ==
    pc = "classified"
    => LET y_min == min(VertexSet)
           y_max == max(VertexSet)
           y_mid == call.y_coords[1] + call.y_coords[2] + call.y_coords[3]
                       - y_min - y_max
       IN /\ call.orientation \in {"buy", "sell"}
          /\ (call.orientation = "buy") <=> ((y_max - y_mid) < (y_mid - y_min))
          /\ VertexSet = {10, 80, 90} => call.orientation = "buy"
          /\ (y_max - y_mid) = (y_mid - y_min) => call.orientation = "sell"

\* the vertices at rows 80, 10 and 90 are classified buy
C16_Witness ==
    /\ pc = "classified"
    /\ call.y_coords = <<80, 10, 90>>
    /\ call.orientation = "buy"


PoolIndexOf(t) == min({ k \in 1..Len(call.triangles) : call.triangles[k] = t })

KeptSet == { call.unique_triangles[k] : k \in 1..Len(call.unique_triangles) }

KeptIndexOf(t) == min({ k \in 1..Len(Unique(call.triangles, <<>>)) :
                          Unique(call.triangles, <<>>)[k] = t })

\* C18: the returned list is in descending order of centre x, triangles of
\* equal x stay in the order in which they were kept, and removing duplicates
\* and sorting again leaves the list as it is.
C18_SortedStable ==
    pc = "returned"
    => /\ \A i, j \in 1..Len(call.unique_triangles) :
             i < j => /\ X(call.unique_triangles[i]) >= X(call.unique_triangles[j])
                      /\ X(call.unique_triangles[i]) = X(call.unique_triangles[j])
                            => KeptIndexOf(call.unique_triangles[i])
                                  < KeptIndexOf(call.unique_triangles[j])
       /\ KeptSet = { Unique(call.triangles, <<>>)[k] :
                        k \in 1..Len(Unique(call.triangles, <<>>)) }
       /\ SortByX(Unique(call.unique_triangles, <<>>)) = call.unique_triangles

\* x = 0 twice and x = 30 once: the larger x comes first and the two of
\* equal x keep their pool order
C18_Witness ==
    /\ pc = "returned"
    /\ call.triangles = <<Tri(0, 0, "buy"), Tri(30, 0, "sell"), Tri(0, 60, "sell")>>
    /\ call.unique_triangles
          = <<Tri(30, 0, "sell"), Tri(0, 0, "buy"), Tri(0, 60, "sell")>>


\* the strip of the call can be searched
StripUsable ==
    /\ pc = "classified"
    /\ call.colorbar # None
    /\ Width(call.colorbar) > 0

\* rows (from 0) in the first and in the last tenth of the strip's height
TopTenth == { row \in 0..(Height(call.colorbar) - 1) : 10 * row < Height(call.colorbar) }

BottomTenth ==
    { row \in 0..(Height(call.colorbar) - 1) :
        10 * (Height(call.colorbar) - 1 - row) < Height(call.colorbar) }

CallMatchingRows == MatchingRows(call.triangle_color, call.colorbar)

MarkerFrames ==
    { n \in 1..Len(image_files) :
        Parsed(image_files[n]) /\ image_files[n].triangles # <<>> }

\* C20: when the gradient strip cannot be loaded, extract_triangles_with_risk
\* still returns one record for every frame with a marker, with the frame's
\* timestamp and risk_level = unknown.
C20_RecordsWithoutStrip ==
    (pc = "returned" /\ colorbar = None)
    => /\ Len(results) = Cardinality(MarkerFrames)
       /\ \A n \in MarkerFrames :
             \E k \in 1..Len(results) :
                /\ results[k].timestamp
                      = strftime(parse_timestamp_from_filename(image_files[n].name))
                /\ results[k].risk_level = "unknown"


\* the last file the loop took
LastTaken == image_files'[Len(image_files')]

\* the step extract_signals_sequential makes on a readable frame in which
\* nothing is detected: only the loop locals change
BlankFrameStep ==
    /\ timestamp' = parse_timestamp_from_filename(LastTaken.name)
    /\ y_axis_info' = None
    /\ triangles' = <<>>
    /\ UNCHANGED <<all_signals, signal_number, previous_triangles, new_triangle,
                   price, pc>>

\* C21: a frame whose image cannot be read is surfaced to the caller as a
\* failure of that frame: the step on it differs, in what the caller can
\* see, from the step on a readable frame without triangles.
C21_UnreadableSurfaced ==
    [][(Len(image_files') = Len(image_files) + 1 /\ ~LastTaken.img)
          => ~BlankFrameStep]_vars


\* C22: the day's CSV changes only when process_date writes the complete
\* signal list after extract_signals_sequential has returned; a run aborted
\* between frames leaves no CSV with a partial list and leaves an existing
\* CSV as it was.
C22_CsvAfterWholeDay ==
    [][/\ csv' # csv => /\ pc = "returned"
                        /\ pc' = "saved"
                        /\ csv' = CsvRows(all_signals)
       /\ pc' = "aborted" => csv' = csv]_vars

\* two signals were extracted when the run was aborted; the old CSV is
\* still there
C22_Witness ==
    /\ pc = "aborted"
    /\ Len(all_signals) = 2
    /\ csv = OldCsv


\* the different (price, position) pairs collected so far
DistinctPairs == { PrimaryPairs[k] : k \in 1..Len(PrimaryPairs) }

\* C23: no EasyOCR pass is run once 3 distinct price/position pairs are
\* collected, and the passes are not left before the last one while fewer
\* than 3 distinct pairs are collected.
C23_StopAtThreeDistinct ==
    [][/\ (pc = "easyocr" /\ call'.passes = call.passes + 1)
            => Cardinality(DistinctPairs) < EnoughPrices
       /\ (pc = "easyocr" /\ pc' = "tesseract" /\ call.easyocr
             /\ call.passes < MaxPasses)
            => Cardinality(DistinctPairs) >= EnoughPrices]_vars


\* the squared distance of the marker colour to the middle-column pixel of a row
MidlineDistance2(row) ==
    Distance2(call.triangle_color,
              call.colorbar[row + 1][(Width(call.colorbar) \div 2) + 1])

\* C24: when some row of the strip holds a pixel within 3 per channel of the
\* marker colour, the risk row is the whole part of the mean of all such
\* rows; otherwise it is the row whose middle-column pixel is nearest to the
\* marker colour, the lowest row among equally near ones.
C24_RiskRow ==
    StripUsable
    => LET rows == CallMatchingRows
           all == 0..(Height(call.colorbar) - 1)
       IN /\ call.avg_row \in all
          /\ rows # {} => /\ call.avg_row * Cardinality(rows) <= SumOf(rows)
                          /\ (call.avg_row + 1) * Cardinality(rows) > SumOf(rows)
          /\ rows = {} => /\ \A r \in all :
                                MidlineDistance2(call.avg_row) <= MidlineDistance2(r)
                          /\ \A r \in all :
                                r < call.avg_row
                                   => MidlineDistance2(r) > MidlineDistance2(call.avg_row)

\* no row matches a colour 4 away from red; rows 0 and 2 are red and equally
\* near, and row 0 is chosen
C24_Witness ==
    /\ StripUsable
    /\ call.triangle_color = NearRed
    /\ call.colorbar = << <<Red>>, <<Amber>>, <<Red>> >>
    /\ CallMatchingRows = {}
    /\ call.avg_row = 0


FramesWithTriangles ==
    { n \in 1..Len(image_files) :
        Parsed(image_files[n]) /\ image_files[n].triangles # <<>> }

C27_SameSelection ==
    colorbar # None =>
        /\ Len(results) <= Len(all_signals)
        /\ \A k \in 1..Len(results) :
              /\ results[k].timestamp = all_signals[k].timestamp
              /\ results[k].price = all_signals[k].price
              /\ results[k].color = all_signals[k].triangle.color
        /\ RunReturned => Len(results) = Len(all_signals)

\* both passes returned two entries, the second frame showing two triangles
C27_Witness ==
    /\ RunReturned
    /\ Len(results) = 2
    /\ Len(all_signals) = 2
    /\ Len(prev_used) = 1
    /\ Len(triangles) = 2
    /\ results[2].price # None


\* the name does not start with a well-formed YYYY-MM-DD_HH-MM-SS field
Malformed(f) == f.name[2] % 2 = 1

\* the step the loop makes on the frame after a skipped one: the signal the
\* frame would give had the skipped file not been in the folder
AfterSkippedStep ==
    LET f == LastTaken
        tri == SelectNew(Len(image_files) - 1, f.triangles, previous_triangles).tri
    IN all_signals' =
          Append(all_signals,
                 MakeSignal(signal_number, parse_timestamp_from_filename(f.name),
                            FramePrice(Y(tri), f.y_axis_info), tri))

\* C28: a frame whose name does not parse is skipped with no effect: no
\* signal is added, the sequence number and the previous-triangle list stay
\* as they were, and the frame after it gives the signal it would give
\* without the skipped file.
C28_UnparsedSkipped ==
    [][ /\ (image_files' # image_files /\ Malformed(LastTaken))
            => /\ all_signals' = all_signals
               /\ signal_number' = signal_number
               /\ previous_triangles' = previous_triangles
               /\ pc' = pc
        /\ (/\ image_files # <<>>
            /\ Malformed(image_files[Len(image_files)])
            /\ image_files' # image_files
            /\ ~Malformed(LastTaken)
            /\ LastTaken.triangles # <<>>)
            => AfterSkippedStep ]_vars

\* a malformed name on a file showing a triangle, between two frames that
\* give signals 1 and 2
C28_Witness ==
    /\ Len(image_files) = 3
    /\ Malformed(image_files[2])
    /\ image_files[2].triangles # <<>>
    /\ signal_frame = <<1, 3>>
    /\ all_signals[2].signal_no = 2
    /\ prev_used = image_files[1].triangles


\* the risk column has been written
Merged == pc = "returned" /\ call.exists

\* the records within 1 second of a parsed row timestamp
Near(ts_parsed) ==
    { j \in 1..Len(call.risk_results) :
        total_seconds(ts_parsed, call.risk_results[j].timestamp) <= Tolerance }

\* C29: each CSV row receives the risk_level of a record closest to it among
\* those within 1 second, the empty risk when there is none, and the
\* risk_level of every record whose timestamp equals the row's.
C29_ClosestWithinOneSecond ==
    Merged =>
        \A k \in 1..Len(call.column) :
            LET ts_parsed == parse_timestamp_for_merge(call.column[k], date_str)
            IN ts_parsed # None =>
                /\ Near(ts_parsed) = {} => call.risk[k] = ""
                /\ Near(ts_parsed) # {} =>
                      \E j \in Near(ts_parsed) :
                          /\ \A j2 \in Near(ts_parsed) :
                                total_seconds(ts_parsed, call.risk_results[j].timestamp)
                                  <= total_seconds(ts_parsed, call.risk_results[j2].timestamp)
                          /\ call.risk[k] = call.risk_results[j].risk_level
                /\ \A j \in 1..Len(call.risk_results) :
                      call.risk_results[j].timestamp = ts_parsed
                          => call.risk[k] = call.risk_results[j].risk_level


\* no attempt of the call was answered with status 200
NoStatus200 ==
    \A n \in 1..Len(call.history) : call.history[n] \notin {"200", "200_bad_body"}

\* C30: _make_request makes at most MAX_RETRIES HTTP attempts, a 429 answer
\* counting as one, and when none of them is answered with status 200 the
\* call ends by returning None, never by raising.
C30_BoundedAttemptsThenNone ==
    /\ Len(call.history) <= MAX_RETRIES
    /\ (pc # "request" /\ NoStatus200) => call.returned = "None"

====
